---- MODULE Spec2Model ----
(***************************************************************************)
(* State-machine model of the Smart Research Assistant frontend:           *)
(* Home (app/page.tsx) and its three children ChatInterface, DocumentList  *)
(* and DocumentUpload (components/*.tsx), together with the requests they  *)
(* keep in flight against the backend.                                     *)
(*                                                                         *)
(* React batches state updates.  The continuation of an awaited request    *)
(* only queues the values it passes to the setters (pending); a later      *)
(* render commits the queued values; the effects whose dependencies the    *)
(* render changed run after the commit (effects) and queue further         *)
(* updates.  Other continuations may run before the render and between     *)
(* the commit and its effects.  A user event may arrive at any moment,     *)
(* also while updates are queued or effects wait: its handler runs on the  *)
(* values of the last commit, then React runs the waiting effects, renders *)
(* synchronously and runs the effects of that render before the event      *)
(* returns, so all of this is one step; what the effects of that render    *)
(* queue is rendered later.  Whether that render also commits the updates  *)
(* queued outside the event depends on the React the page is built with    *)
(* (unifiedLanes).  Whether the dropzone calls onDrop inside the drop      *)
(* event or later from a promise is the library's choice: onDrop is        *)
(* modelled in both contexts.  All setters are called with values, so of   *)
(* several queued updates of one state the last one wins.  React compares  *)
(* the dependencies of an effect by identity: every array of messages      *)
(* carries the number of the call that built it (ref).  Text is modelled   *)
(* as a sequence of strings, so that every message content has the same    *)
(* type.                                                                   *)
(***************************************************************************)
EXTENDS Integers, Sequences, FiniteSets, TLC

\* ------------------------------------------------------------------ bounds
MaxAsks     == 2   \* submits accepted in one run
MaxDrops    == 2   \* drops that start an upload in one run
MaxSums     == 2   \* clicks on a Summarize button in one run
MaxInitDocs == 1   \* documents the backend already holds when the page loads

\* ------------------------------------------------------------- vocabulary
\* Texts typed into the chat input: empty, blank, a word, and words with
\* whitespace around and between them.
Inputs ==
  { <<>>, <<" ">>, <<"a">>, <<" ", "a", " ", "a", " ">> }

\* The inputs typed where the wording of the question plays no part.
PlainInputs == { <<>>, <<"a">> }

\* Page numbers of the sources of an ask response (1-based).
Pages == {1, 2}

Files == {"a.pdf", "b.pdf"}

NoDoc == 0         \* summarizing === null

\* The literal texts of the components.
ErrorText == <<"Sorry, there was an error processing your question. Please try again.">>

SummarizePrompt == <<"Please summarize this document.">>

UploadErrorText == <<"Error uploading document. Please try again.">>


VARIABLES
  \* Home
  refreshDocuments, homeMessages, homeMessagesRef,
  \* ChatInterface
  messages, messagesRef, input, loading, showSources, asks,
  \* DocumentList
  documents, docsLoading, summarizing, summary, summaryDialogOpen, currentFile,
  fetches, sums,
  \* DocumentUpload
  uploading, uploadStatus, uploads,
  \* React: queued state updates, effects waiting to run, and whether a
  \* synchronous render also commits the updates queued before its event
  pending, effects, unifiedLanes,
  \* backend
  serverDocs,
  \* observation of calls; unrendered holds the completions whose updates
  \* no render has committed yet
  toast, fetchSeq, lastFetchIssuedAt, docsFrom, unrendered,
  onUploadSuccessCalls, onSummarizeCalls, nAsks, nDrops, nSums, lastDrop

\* The state of the four components, as of the last commit.
uiVars == <<refreshDocuments, homeMessages, homeMessagesRef, messages, messagesRef,
            input, loading, showSources,
            documents, docsFrom, docsLoading, summarizing, summary,
            summaryDialogOpen, currentFile, uploading, uploadStatus>>
reactVars == <<pending, effects, unrendered>>
buildVars == <<unifiedLanes>>
fetchVars == <<fetches, fetchSeq, lastFetchIssuedAt>>
chatVars == <<asks, nAsks>>
sumVars == <<sums, onSummarizeCalls, nSums>>
uploadVars == <<uploads, onUploadSuccessCalls, nDrops, lastDrop>>
vars == <<uiVars, reactVars, buildVars, fetchVars, chatVars, sumVars, uploadVars,
          serverDocs, toast>>

\* ---------------------------------------------------------- pure helpers
RECURSIVE TrimStart(_)
TrimStart(s) ==
  IF s # <<>> /\ Head(s) = " " THEN TrimStart(Tail(s)) ELSE s

RECURSIVE TrimEnd(_)
TrimEnd(s) ==
  IF s # <<>> /\ s[Len(s)] = " " THEN TrimEnd(SubSeq(s, 1, Len(s) - 1)) ELSE s

\* A plausible slip: only leading whitespace is removed.
TrimLeadingOnly(s) == TrimStart(s)

\* String.prototype.trim on the chat input.
Trim(s) == TrimEnd(TrimStart(s))

\* The page number the Sources section prints for one source entry.
ShownPage(source) == source.page + 1

\* The Sources section of one message: empty unless the message is an
\* assistant message that has a non-empty sources list.
RenderedSources(message) ==
  IF message.role = "assistant" /\ "sources" \in DOMAIN message
     /\ Len(message.sources) > 0
  THEN [i \in 1..Len(message.sources) |->
          [source  |-> message.sources[i].source,
           page    |-> ShownPage(message.sources[i]),
           snippet |-> message.sources[i].snippet]]
  ELSE <<>>

\* GET /documents/ answers with the mapping of the first n backend documents.
Listing(n) ==
  [id \in 1..n |-> [filename |-> serverDocs[id], num_pages |-> 1]]

\* POST /documents/{id}/summarize answers with the summary of that document.
SummaryOf(docId) == <<"summary of", serverDocs[docId]>>

\* Removal of the i-th request from a list of requests in flight.
RemoveAt(s, i) == SubSeq(s, 1, i - 1) \o SubSeq(s, i + 1, Len(s))

\* What the backend may answer to an ask: an answer, with or without sources.
Sources ==
  {<<>>} \cup {<<[source |-> f, page |-> p, snippet |-> "snippet"]>> :
                 f \in {"a.pdf"}, p \in Pages}

AskResponses ==
  {[answer |-> <<"answer">>]} \cup
  {[answer |-> <<"answer">>, sources |-> s] : s \in Sources}

\* The responses used where the sources play no part.
PlainResponses == {[answer |-> <<"answer">>]}
\* ------------------------------------------------------- Home's handlers
\* Home.handleSummarize: the pair of messages that replaces the conversation.
SummaryPair(summaryText) ==
  << [role |-> "user", content |-> SummarizePrompt],
     [role |-> "assistant", content |-> summaryText] >>

\* onUploadSuccess is Home.handleUploadSuccess: setRefreshDocuments(true).
OnUploadSuccess(queue) == [queue EXCEPT !.refreshDocuments = <<TRUE>>]

\* onRefreshComplete is Home.handleRefreshComplete: setRefreshDocuments(false).
OnRefreshComplete(queue) == [queue EXCEPT !.refreshDocuments = <<FALSE>>]

\* The number of message arrays built so far: one by each submit, one by
\* each completion of an ask, one by each call of Home.handleSummarize.
ArraysBuilt == 2 * nAsks - Len(asks) + onSummarizeCalls

\* A newly built array of messages: identical to no array built before.
NewArray(items) == [ref |-> ArraysBuilt + 1, items |-> items]

\* onSummarize is Home.handleSummarize: setMessages of a newly built pair.
OnSummarize(summaryText, queue) ==
  [queue EXCEPT !.homeMessages = <<NewArray(SummaryPair(summaryText))>>]

\* ------------------------------------------------------ render and effects
\* No update is queued.  Each state of a component has the value passed to
\* its setter last, if any; an array of messages is queued with its ref.
NoPending ==
  [refreshDocuments |-> <<>>, homeMessages |-> <<>>,
   messages |-> <<>>, input |-> <<>>, loading |-> <<>>, showSources |-> <<>>,
   documents |-> <<>>, docsFrom |-> <<>>, docsLoading |-> <<>>,
   summarizing |-> <<>>, summary |-> <<>>, summaryDialogOpen |-> <<>>,
   currentFile |-> <<>>, uploading |-> <<>>, uploadStatus |-> <<>>]

\* No effect waits to run.  Each effect is kept with the value of its
\* dependency in the render that scheduled it.
NoEffects == [initialMessages |-> <<>>, messages |-> <<>>, refresh |-> <<>>]

\* The value of a state after a render that applies the queued update.
Committed(update, current) == IF update = <<>> THEN current ELSE update[1]

\* The effects a render of the queued updates schedules: those whose
\* dependency the render changes, an array being changed when it is
\* another array than the one of the last commit, whatever it holds.
EffectsOf(queue) ==
  [initialMessages |->
     IF queue.homeMessages # <<>> /\ queue.homeMessages[1].ref # homeMessagesRef
     THEN queue.homeMessages ELSE <<>>,
   messages |->
     IF queue.messages # <<>> /\ queue.messages[1].ref # messagesRef
     THEN queue.messages ELSE <<>>,
   refresh |->
     IF queue.refreshDocuments # <<>> /\ queue.refreshDocuments[1] # refreshDocuments
     THEN queue.refreshDocuments ELSE <<>>]

\* ChatInterface, effect on [initialMessages]: adopt the parent's messages
\* when they are non-empty.
InitialMessagesEffect(dep, queue) ==
  IF dep # <<>> /\ Len(dep[1].items) > 0
  THEN [queue EXCEPT !.messages = dep]
  ELSE queue

\* ChatInterface, effect on [messages, onMessagesChange]: hand the
\* conversation, the very array, to Home's setMessages.
MessagesEffect(dep, queue) ==
  IF dep # <<>> THEN [queue EXCEPT !.homeMessages = dep] ELSE queue

\* DocumentList, effect on [refresh]: fetchDocuments when the flag is set;
\* fetchDocuments starts with setLoading(true).
RefreshEffect(dep, queue) ==
  IF dep = <<TRUE>> THEN [queue EXCEPT !.docsLoading = <<TRUE>>] ELSE queue

\* The updates queued once the effects fx have run.
Queued(fx, queue) ==
  MessagesEffect(fx.messages,
    InitialMessagesEffect(fx.initialMessages,
      RefreshEffect(fx.refresh, queue)))

\* fetchDocuments up to the await: a GET /documents/ is sent.
FetchDocuments ==
  /\ fetchSeq' = fetchSeq + 1
  /\ fetches' = Append(fetches, [id |-> fetchSeq + 1, issuedAt |-> Len(serverDocs)])
  /\ lastFetchIssuedAt' = Len(serverDocs)

\* The request sent by the effects fx.
IssueFetch(fx) ==
  IF fx.refresh = <<TRUE>> THEN FetchDocuments ELSE UNCHANGED fetchVars

\* The request sent by the effects first and, after them, the effects
\* next, of two commits in a row: the flag cannot have become true in both.
IssueFetches(first, next) ==
  IF first.refresh = <<TRUE>> \/ next.refresh = <<TRUE>>
  THEN FetchDocuments
  ELSE UNCHANGED fetchVars

\* The arrays of messages of the last commit.
NewestHome == [ref |-> homeMessagesRef, items |-> homeMessages]

NewestChat == [ref |-> messagesRef, items |-> messages]

\* The commit of a render that applies the queued updates.
Commit(queue) ==
  /\ refreshDocuments' = Committed(queue.refreshDocuments, refreshDocuments)
  /\ homeMessages' = Committed(queue.homeMessages, NewestHome).items
  /\ homeMessagesRef' = Committed(queue.homeMessages, NewestHome).ref
  /\ messages' = Committed(queue.messages, NewestChat).items
  /\ messagesRef' = Committed(queue.messages, NewestChat).ref
  /\ input' = Committed(queue.input, input)
  /\ loading' = Committed(queue.loading, loading)
  /\ showSources' = Committed(queue.showSources, showSources)
  /\ documents' = Committed(queue.documents, documents)
  /\ docsFrom' = Committed(queue.docsFrom, docsFrom)
  /\ docsLoading' = Committed(queue.docsLoading, docsLoading)
  /\ summarizing' = Committed(queue.summarizing, summarizing)
  /\ summary' = Committed(queue.summary, summary)
  /\ summaryDialogOpen' = Committed(queue.summaryDialogOpen, summaryDialogOpen)
  /\ currentFile' = Committed(queue.currentFile, currentFile)
  /\ uploading' = Committed(queue.uploading, uploading)
  /\ uploadStatus' = Committed(queue.uploadStatus, uploadStatus)

\* Nothing is queued and no effect waits: the page shows its final state.
Settled == pending = NoPending /\ effects = NoEffects

\* The queue that holds the updates of first and, after them, those of
\* next.
Merged(first, next) ==
  [state \in DOMAIN NoPending |->
     IF next[state] # <<>> THEN next[state] ELSE first[state]]

\* The queue a synchronous render that commits only the updates of its
\* event leaves behind: the updates queued before stay queued, and a state
\* the event updated too ends with the event's value.
Skipped(updates) ==
  [state \in DOMAIN NoPending |->
     IF pending[state] # <<>> /\ updates[state] # <<>>
     THEN updates[state] ELSE pending[state]]

\* The render of a user event whose handler queued updates.  The effects
\* still waiting run first and queue after the handler; the render commits
\* the updates of the event, with or without those queued outside it, and
\* its own effects run before the event returns.
SyncRender(updates) ==
  LET queued == Queued(effects, IF unifiedLanes THEN Merged(pending, updates)
                                                 ELSE Skipped(updates))
      taken == IF unifiedLanes THEN queued ELSE updates
      left == IF unifiedLanes THEN NoPending ELSE queued
  IN /\ Commit(taken)
     /\ unrendered' = IF unifiedLanes THEN {} ELSE unrendered
     /\ pending' = Queued(EffectsOf(taken), left)
     /\ effects' = NoEffects
     /\ IssueFetches(effects, EffectsOf(taken))

\* The render React schedules after a continuation or an effect queued
\* updates; React runs the effects of an earlier commit before it starts
\* (RunEffects).
Render ==
  /\ pending # NoPending
  /\ effects = NoEffects
  /\ Commit(pending)
  /\ unrendered' = {}
  /\ pending' = NoPending
  /\ effects' = EffectsOf(pending)
  /\ toast' = ""
  /\ UNCHANGED buildVars
  /\ UNCHANGED <<fetchVars, chatVars, sumVars, uploadVars, serverDocs>>

\* The effects of the last commit run.
RunEffects ==
  /\ effects # NoEffects
  /\ pending' = Queued(effects, pending)
  /\ effects' = NoEffects
  /\ IssueFetch(effects)
  /\ toast' = ""
  /\ UNCHANGED buildVars
  /\ UNCHANGED <<uiVars, unrendered, chatVars, sumVars, uploadVars, serverDocs>>

\* ------------------------------------------------------------------- Init
\* The page after its first render and the effects of the mount.
Init ==
  /\ refreshDocuments = FALSE
  /\ homeMessages = <<>>
  /\ homeMessagesRef = 0
  \* useState(initialMessages): the chat starts with Home's own array
  /\ messages = <<>>
  /\ messagesRef = 0
  /\ input = <<>>
  /\ loading = FALSE
  /\ showSources = TRUE
  /\ asks = <<>>
  /\ documents = <<>>
  /\ docsLoading = TRUE
  /\ summarizing = NoDoc
  /\ summary = <<>>
  /\ summaryDialogOpen = FALSE
  /\ currentFile = ""
  /\ \E n \in 0..MaxInitDocs : serverDocs = [i \in 1..n |-> "a.pdf"]
  \* the mount effect has called fetchDocuments once
  /\ fetches = <<[id |-> 1, issuedAt |-> Len(serverDocs)]>>
  /\ fetchSeq = 1
  /\ lastFetchIssuedAt = Len(serverDocs)
  /\ docsFrom = 0
  /\ sums = <<>>
  /\ uploading = FALSE
  /\ uploadStatus = <<>>
  /\ uploads = <<>>
  /\ pending = NoPending
  /\ effects = NoEffects
  /\ unifiedLanes \in BOOLEAN
  /\ unrendered = {}
  /\ toast = ""
  /\ onUploadSuccessCalls = 0
  /\ onSummarizeCalls = 0
  /\ nAsks = 0
  /\ nDrops = 0
  /\ nSums = 0
  /\ lastDrop = <<>>

\* -------------------------------------------------------- ChatInterface
\* onChange of the input (disabled while loading).
SetInput(s) ==
  /\ ~loading
  /\ s # input
  /\ SyncRender([NoPending EXCEPT !.input = <<s>>])
  /\ toast' = ""
  /\ UNCHANGED buildVars
  /\ UNCHANGED <<chatVars, sumVars, uploadVars, serverDocs>>

\* onCheckedChange of the "Show sources" switch.
ToggleSources ==
  /\ SyncRender([NoPending EXCEPT !.showSources = <<~showSources>>])
  /\ toast' = ""
  /\ UNCHANGED buildVars
  /\ UNCHANGED <<chatVars, sumVars, uploadVars, serverDocs>>

\* handleSubmit goes on past its first line: the input is not blank and
\* the chat is not loading.
SubmitAccepted == ~(Trim(input) = <<>> \/ loading)

\* A plausible slip: setLoading(true) left out, so the form stays enabled
\* while the request is in flight.
HandleSubmitStaysIdle ==
  /\ nAsks < MaxAsks
  /\ SubmitAccepted
  /\ LET userMessage == [role |-> "user", content |-> input]
         updatedMessages == Append(messages, userMessage)
     IN /\ SyncRender([NoPending EXCEPT !.messages = <<NewArray(updatedMessages)>>,
                                        !.input = << <<>> >>])
        /\ asks' = Append(asks, [question        |-> Trim(input),
                                 include_sources |-> showSources,
                                 updatedMessages |-> updatedMessages])
  /\ nAsks' = nAsks + 1
  /\ toast' = ""
  /\ UNCHANGED buildVars
  /\ UNCHANGED <<sumVars, uploadVars, serverDocs>>

\* handleSubmit up to the await: the user message is appended to the
\* messages of the last render, the input cleared, the chat set loading and
\* the request sent.
HandleSubmit ==
  /\ nAsks < MaxAsks
  /\ SubmitAccepted
  /\ LET userMessage == [role |-> "user", content |-> input]
         updatedMessages == Append(messages, userMessage)
     IN /\ SyncRender([NoPending EXCEPT !.messages = <<NewArray(updatedMessages)>>,
                                        !.input = << <<>> >>,
                                        !.loading = <<TRUE>>])
        /\ asks' = Append(asks, [question        |-> Trim(input),
                                 include_sources |-> showSources,
                                 updatedMessages |-> updatedMessages])
  /\ nAsks' = nAsks + 1
  /\ toast' = ""
  /\ UNCHANGED buildVars
  /\ UNCHANGED <<sumVars, uploadVars, serverDocs>>

\* handleSubmit after the await resolved with response.data = data: the
\* assistant message is appended to the messages of the submission.
AskResolved(i, data) ==
  /\ i \in DOMAIN asks
  /\ LET assistantMessage ==
           IF "sources" \in DOMAIN data
           THEN [role |-> "assistant", content |-> data.answer,
                 sources |-> data.sources]
           ELSE [role |-> "assistant", content |-> data.answer]
         finalMessages == Append(asks[i].updatedMessages, assistantMessage)
     IN pending' = [pending EXCEPT !.messages = <<NewArray(finalMessages)>>,
                                   !.loading = <<FALSE>>]
  /\ unrendered' = unrendered \cup {"ask resolved"}
  /\ asks' = RemoveAt(asks, i)
  /\ toast' = ""
  /\ UNCHANGED buildVars
  /\ UNCHANGED <<uiVars, effects, fetchVars, nAsks, sumVars, uploadVars, serverDocs>>

\* handleSubmit after the await rejected.
AskRejected(i) ==
  /\ i \in DOMAIN asks
  /\ LET errorMessage == [role |-> "assistant", content |-> ErrorText]
         finalMessages == Append(asks[i].updatedMessages, errorMessage)
     IN pending' = [pending EXCEPT !.messages = <<NewArray(finalMessages)>>,
                                   !.loading = <<FALSE>>]
  /\ unrendered' = unrendered \cup {"ask rejected"}
  /\ asks' = RemoveAt(asks, i)
  /\ toast' = "Error"
  /\ UNCHANGED buildVars
  /\ UNCHANGED <<uiVars, effects, fetchVars, nAsks, sumVars, uploadVars, serverDocs>>

\* --------------------------------------------------------- DocumentList
\* fetchDocuments after the await resolved; the backend answered with the
\* mapping it held at some moment between the request and now (documents
\* are only ever added), of n documents.
FetchResolved(i, n) ==
  /\ i \in DOMAIN fetches
  /\ n \in fetches[i].issuedAt..Len(serverDocs)
  /\ pending' = OnRefreshComplete(
                  [pending EXCEPT !.documents = <<Listing(n)>>,
                                  !.docsFrom = <<fetches[i].id>>,
                                  !.docsLoading = <<FALSE>>])
  /\ unrendered' = unrendered \cup {"fetch resolved"}
  /\ fetches' = RemoveAt(fetches, i)
  /\ toast' = ""
  /\ UNCHANGED buildVars
  /\ UNCHANGED <<uiVars, effects, fetchSeq, lastFetchIssuedAt, chatVars, sumVars,
                 uploadVars, serverDocs>>

\* A plausible slip: onRefreshComplete called at the end of the try block
\* instead of in finally.
FetchRejectedNoCallback(i) ==
  /\ i \in DOMAIN fetches
  /\ pending' = [pending EXCEPT !.docsLoading = <<FALSE>>]
  /\ unrendered' = unrendered \cup {"fetch rejected"}
  /\ fetches' = RemoveAt(fetches, i)
  /\ toast' = "Error Loading Documents"
  /\ UNCHANGED buildVars
  /\ UNCHANGED <<uiVars, effects, fetchSeq, lastFetchIssuedAt, chatVars, sumVars,
                 uploadVars, serverDocs>>

\* fetchDocuments after the await rejected.
FetchRejected(i) ==
  /\ i \in DOMAIN fetches
  /\ pending' = OnRefreshComplete([pending EXCEPT !.docsLoading = <<FALSE>>])
  /\ unrendered' = unrendered \cup {"fetch rejected"}
  /\ fetches' = RemoveAt(fetches, i)
  /\ toast' = "Error Loading Documents"
  /\ UNCHANGED buildVars
  /\ UNCHANGED <<uiVars, effects, fetchSeq, lastFetchIssuedAt, chatVars, sumVars,
                 uploadVars, serverDocs>>

\* DocumentList.handleSummarize up to the await.  The buttons are rendered
\* only when the list is not loading, one per displayed document, and the
\* button of the document being summarized is disabled.
HandleSummarize(docId) ==
  /\ nSums < MaxSums
  /\ ~docsLoading
  /\ docId \in DOMAIN documents
  /\ summarizing # docId
  /\ SyncRender([NoPending EXCEPT !.summarizing = <<docId>>,
                                  !.currentFile = <<documents[docId].filename>>])
  /\ sums' = Append(sums, [docId |-> docId])
  /\ nSums' = nSums + 1
  /\ toast' = ""
  /\ UNCHANGED buildVars
  /\ UNCHANGED <<chatVars, onSummarizeCalls, uploadVars, serverDocs>>

\* DocumentList.handleSummarize after the await resolved: the summary is
\* stored, the dialog opened and onSummarize called.
SummarizeResolved(i) ==
  /\ i \in DOMAIN sums
  /\ LET summaryText == SummaryOf(sums[i].docId)
     IN pending' = [OnSummarize(summaryText,
                      [pending EXCEPT !.summary = <<summaryText>>,
                                      !.summaryDialogOpen = <<TRUE>>])
                    EXCEPT !.summarizing = <<NoDoc>>]
  /\ unrendered' = unrendered \cup {"summarize resolved"}
  /\ onSummarizeCalls' = onSummarizeCalls + 1
  /\ sums' = RemoveAt(sums, i)
  /\ toast' = ""
  /\ UNCHANGED buildVars
  /\ UNCHANGED <<uiVars, effects, fetchVars, chatVars, nSums, uploadVars, serverDocs>>

\* A plausible slip: setSummarizing(null) at the end of the try block
\* instead of in finally.
SummarizeRejectedStaysBusy(i) ==
  /\ i \in DOMAIN sums
  /\ unrendered' = unrendered \cup {"summarize rejected"}
  /\ sums' = RemoveAt(sums, i)
  /\ toast' = "Summarization Failed"
  /\ UNCHANGED buildVars
  /\ UNCHANGED <<uiVars, pending, effects, fetchVars, chatVars, onSummarizeCalls,
                 nSums, uploadVars, serverDocs>>

\* DocumentList.handleSummarize after the await rejected.
SummarizeRejected(i) ==
  /\ i \in DOMAIN sums
  /\ pending' = [pending EXCEPT !.summarizing = <<NoDoc>>]
  /\ unrendered' = unrendered \cup {"summarize rejected"}
  /\ sums' = RemoveAt(sums, i)
  /\ toast' = "Summarization Failed"
  /\ UNCHANGED buildVars
  /\ UNCHANGED <<uiVars, effects, fetchVars, chatVars, onSummarizeCalls, nSums,
                 uploadVars, serverDocs>>

\* onOpenChange(false) of the summary dialog, which is rendered only when
\* the list is not loading and not empty.
CloseDialog ==
  /\ summaryDialogOpen
  /\ ~docsLoading
  /\ Len(documents) > 0
  /\ SyncRender([NoPending EXCEPT !.summaryDialogOpen = <<FALSE>>])
  /\ toast' = ""
  /\ UNCHANGED buildVars
  /\ UNCHANGED <<chatVars, sumVars, uploadVars, serverDocs>>

\* ------------------------------------------------------- DocumentUpload
\* What the dropzone may hand to onDrop: with maxFiles: 1 a drop of more
\* than one file is rejected as a whole, so at most one accepted file.
AcceptedFiles == UNION {[1..n -> Files] : n \in 0..1}

\* What onDrop's two setter calls before the await lead to: inside the
\* drop event React renders them before the event returns, outside they
\* are queued.
DropStarted(inEvent) ==
  LET updates == [NoPending EXCEPT !.uploading = <<TRUE>>,
                                   !.uploadStatus = << <<>> >>]
  IN IF inEvent
     THEN SyncRender(updates)
     ELSE /\ pending' = Merged(pending, updates)
          /\ unrendered' = unrendered \cup {"drop"}
          /\ UNCHANGED <<uiVars, effects, fetchVars>>

\* A plausible slip: the early return on an empty list left out.
OnDropIgnoresEmpty(acceptedFiles, inEvent) ==
  /\ nDrops < MaxDrops
  /\ lastDrop' = acceptedFiles
  /\ DropStarted(inEvent)
  /\ uploads' = Append(uploads,
                       [file |-> IF Len(acceptedFiles) = 0 THEN "undefined"
                                 ELSE acceptedFiles[1]])
  /\ nDrops' = nDrops + 1
  /\ toast' = ""
  /\ UNCHANGED buildVars
  /\ UNCHANGED <<chatVars, sumVars, onUploadSuccessCalls, serverDocs>>

\* onDrop up to the await, called by the dropzone inside the drop event
\* (inEvent) or after it; lastDrop records the files it was handed.
OnDrop(acceptedFiles, inEvent) ==
  /\ nDrops < MaxDrops
  /\ lastDrop' = acceptedFiles
  /\ IF Len(acceptedFiles) = 0
     THEN UNCHANGED <<uiVars, reactVars, fetchVars, uploads, nDrops>>
     ELSE /\ DropStarted(inEvent)
          /\ uploads' = Append(uploads, [file |-> acceptedFiles[1]])
          /\ nDrops' = nDrops + 1
  /\ toast' = ""
  /\ UNCHANGED buildVars
  /\ UNCHANGED <<chatVars, sumVars, onUploadSuccessCalls, serverDocs>>

\* onDrop after the await resolved: the backend has stored the document.
UploadResolved(i) ==
  /\ i \in DOMAIN uploads
  /\ serverDocs' = Append(serverDocs, uploads[i].file)
  /\ pending' = [OnUploadSuccess(
                   [pending EXCEPT !.uploadStatus =
                      <<<<[success |-> TRUE,
                           message |-> <<"Successfully processed", uploads[i].file>>]>>>>])
                 EXCEPT !.uploading = <<FALSE>>]
  /\ unrendered' = unrendered \cup {"upload resolved"}
  /\ toast' = "Document Uploaded"
  /\ UNCHANGED buildVars
  /\ onUploadSuccessCalls' = onUploadSuccessCalls + 1
  /\ uploads' = RemoveAt(uploads, i)
  /\ UNCHANGED <<uiVars, effects, fetchVars, chatVars, sumVars, nDrops, lastDrop>>

\* A plausible slip: onUploadSuccess called in the finally block, so also
\* after a failed upload.
UploadRejectedCallsBack(i) ==
  /\ i \in DOMAIN uploads
  /\ pending' = [OnUploadSuccess(
                   [pending EXCEPT !.uploadStatus =
                      <<<<[success |-> FALSE, message |-> UploadErrorText]>>>>])
                 EXCEPT !.uploading = <<FALSE>>]
  /\ unrendered' = unrendered \cup {"upload rejected"}
  /\ toast' = "Upload Failed"
  /\ UNCHANGED buildVars
  /\ onUploadSuccessCalls' = onUploadSuccessCalls + 1
  /\ uploads' = RemoveAt(uploads, i)
  /\ UNCHANGED <<uiVars, effects, fetchVars, chatVars, sumVars, nDrops, lastDrop,
                 serverDocs>>

\* onDrop after the await rejected.
UploadRejected(i) ==
  /\ i \in DOMAIN uploads
  /\ pending' = [pending EXCEPT !.uploadStatus =
                   <<<<[success |-> FALSE, message |-> UploadErrorText]>>>>,
                                !.uploading = <<FALSE>>]
  /\ unrendered' = unrendered \cup {"upload rejected"}
  /\ toast' = "Upload Failed"
  /\ UNCHANGED buildVars
  /\ uploads' = RemoveAt(uploads, i)
  /\ UNCHANGED <<uiVars, effects, fetchVars, chatVars, sumVars, onUploadSuccessCalls,
                 nDrops, lastDrop, serverDocs>>

\* ------------------------------------------------------- specifications
ChatNext(typed, responses) ==
  \/ \E s \in typed : SetInput(s)
  \/ ToggleSources
  \/ HandleSubmit
  \/ \E i \in 1..MaxAsks, data \in responses : AskResolved(i, data)
  \/ \E i \in 1..MaxAsks : AskRejected(i)

SummarizeNext ==
  \/ \E d \in 1..(MaxInitDocs + MaxDrops) : HandleSummarize(d)
  \/ \E i \in 1..MaxSums : SummarizeResolved(i)
  \/ \E i \in 1..MaxSums : SummarizeRejected(i)
  \/ CloseDialog

FetchNext ==
  \/ \E i \in 1..(MaxDrops + 1), n \in 0..(MaxInitDocs + MaxDrops) : FetchResolved(i, n)
  \/ \E i \in 1..(MaxDrops + 1) : FetchRejected(i)

UploadNext ==
  \/ \E fs \in AcceptedFiles, inEvent \in BOOLEAN : OnDrop(fs, inEvent)
  \/ \E i \in 1..MaxDrops : UploadResolved(i)
  \/ \E i \in 1..MaxDrops : UploadRejected(i)

\* React's own steps.
ReactNext ==
  \/ Render
  \/ RunEffects

\* The whole page.
Next ==
  ChatNext(PlainInputs, PlainResponses) \/ SummarizeNext \/ FetchNext \/ UploadNext
    \/ ReactNext

Spec == Init /\ [][Next]_vars

\* The chat alone, with every wording of the question; the documents play
\* no part in it, the backend holds none.
AskInit == Init /\ serverDocs = <<>>

AskNext == ChatNext(Inputs, AskResponses) \/ ReactNext

AskSpec == AskInit /\ [][AskNext]_vars

\* The document list loads and summaries arrive.
SummaryArrivesNext ==
  \/ \E i \in 1..(MaxDrops + 1), n \in 0..(MaxInitDocs + MaxDrops) : FetchResolved(i, n)
  \/ \E d \in 1..(MaxInitDocs + MaxDrops) : HandleSummarize(d)
  \/ \E i \in 1..MaxSums : SummarizeResolved(i)

\* The chat with every wording of the question, while summaries arrive: a
\* summary may be queued, and its effects may wait, when the question is
\* submitted.
BusyAskNext == ChatNext(Inputs, PlainResponses) \/ SummaryArrivesNext \/ ReactNext

BusyAskSpec == Init /\ [][BusyAskNext]_vars

\* The chat together with the document list and its summaries.
ConversationNext ==
  ChatNext(PlainInputs, PlainResponses) \/ SummarizeNext \/ FetchNext \/ ReactNext

ConversationSpec == Init /\ [][ConversationNext]_vars

\* The document list and its summaries alone.
SummaryNext == SummarizeNext \/ FetchNext \/ ReactNext

SummarySpec == Init /\ [][SummaryNext]_vars

\* Uploads together with the document list.
DocumentsNext == UploadNext \/ FetchNext \/ ReactNext

DocumentsSpec == Init /\ [][DocumentsNext]_vars

\* Uploads, the document list and its summaries.  The summary dialog is
\* taken to be modal: while it is open no Summarize button is clicked.
ModalSummarizeNext ==
  \/ \E d \in 1..(MaxInitDocs + MaxDrops) : ~summaryDialogOpen /\ HandleSummarize(d)
  \/ \E i \in 1..MaxSums : SummarizeResolved(i)
  \/ \E i \in 1..MaxSums : SummarizeRejected(i)
  \/ CloseDialog

SummariesNext == UploadNext \/ FetchNext \/ ModalSummarizeNext \/ ReactNext

SummariesSpec == Init /\ [][SummariesNext]_vars

\* ------------------------------------------------------------- properties
\* q is s with its surrounding whitespace removed.
IsTrimOf(q, s) ==
  \E a \in 0..Len(s) :
    /\ a + Len(q) <= Len(s)
    /\ SubSeq(s, a + 1, a + Len(q)) = q
    /\ \A k \in 1..a : s[k] = " "
    /\ \A k \in (a + Len(q) + 1)..Len(s) : s[k] = " "
    /\ q # <<>> => (q[1] # " " /\ q[Len(q)] # " ")

\* An ask request completed in this step (the i-th in flight).
AskCompleted(i) == i \in DOMAIN asks /\ asks' = RemoveAt(asks, i)

\* This step is the first render after the completion named by kind.
RendersAfter(kind) == kind \in unrendered /\ unrendered' = {}

\* C1: every source entry of a message of the chat is displayed with the
\* page number of the response, which the Ask contract gives 1-based.
C1_ShownPageIsContractPage ==
  \A i \in DOMAIN messages :
    \A k \in DOMAIN RenderedSources(messages[i]) :
      RenderedSources(messages[i])[k].page = messages[i].sources[k].page

\* C2: every ask request that handleSubmit sends carries a non-empty question,
\* the input with its surrounding whitespace removed, and include_sources
\* equal to the toggle at that moment.
C2_AskRequestCarriesTrimmedInput ==
  [][Len(asks') > Len(asks) =>
       LET request == asks'[Len(asks')]
       IN /\ request.question # <<>>
          /\ IsTrimOf(request.question, input)
          /\ request.include_sources = showSources]_vars

C2_Witness ==
  /\ Len(asks) = 1
  /\ asks[1].include_sources = FALSE
  /\ asks[1].question # messages[Len(messages)].content
  /\ messages[Len(messages)].role = "user"

\* C3: in the first render after an ask request failed, the conversation
\* ends with a user message followed by one assistant message with the
\* fixed error text and no sources, and the chat is no longer loading.
C3_FailedAskIsAnswered ==
  [][RendersAfter("ask rejected") =>
       LET n == Len(messages')
       IN /\ n >= 2
          /\ messages'[n] =
               [role |-> "assistant",
                content |-> <<"Sorry, there was an error processing your question. Please try again.">>]
          /\ messages'[n - 1].role = "user"
          /\ loading' = FALSE]_vars

\* C4: once no fetch and no upload is outstanding and the page is settled,
\* the most recently issued document-list fetch was issued after the last
\* successful upload, so that its response lists every uploaded document.
C4_FetchIssuedAfterEveryUpload ==
  (fetches = <<>> /\ uploads = <<>> /\ Settled) =>
    lastFetchIssuedAt = Len(serverDocs)

\* C5: in the first render after a summarize request succeeded, Home's
\* conversation is exactly the pair [user: 'Please summarize this
\* document.', assistant: the summary the dialog shows].
C5_SummaryReplacesConversation ==
  [][RendersAfter("summarize resolved") =>
       /\ summaryDialogOpen'
       /\ homeMessages' =
            << [role |-> "user", content |-> <<"Please summarize this document.">>],
               [role |-> "assistant", content |-> summary'] >>]_vars

\* C6: onUploadSuccess is called exactly once for each upload that succeeds
\* and never otherwise, and a completing upload sets uploadStatus to success
\* when it succeeded and to failure when it failed.
C6_UploadCallbackOncePerSuccess ==
  [][/\ onUploadSuccessCalls' - onUploadSuccessCalls
          = Len(serverDocs') - Len(serverDocs)
     /\ \A i \in DOMAIN uploads :
          uploads' = RemoveAt(uploads, i) =>
            /\ Len(pending'.uploadStatus) = 1
            /\ Len(pending'.uploadStatus[1]) = 1
            /\ pending'.uploadStatus[1][1].success
                 = (Len(serverDocs') > Len(serverDocs))
            /\ IF pending'.uploadStatus[1][1].success
               THEN pending'.refreshDocuments = <<TRUE>>
               ELSE pending'.refreshDocuments = pending.refreshDocuments]_vars

C6_Witness ==
  /\ onUploadSuccessCalls = 1
  /\ nDrops = 2
  /\ uploads = <<>>
  /\ Len(uploadStatus) = 1
  /\ ~uploadStatus[1].success
  /\ Len(serverDocs) > Len(documents)

\* C7: a failed summarize request leaves the stored summary, the dialog's
\* open state and the conversation as they were and queues no update of
\* them, does not call onSummarize, and resets summarizing to null.
C7_FailedSummarizeChangesNothing ==
  [][\A i \in DOMAIN sums :
       (sums' = RemoveAt(sums, i) /\ toast' = "Summarization Failed") =>
         /\ UNCHANGED <<summary, summaryDialogOpen, messages, homeMessages,
                        onSummarizeCalls>>
         /\ pending' = [pending EXCEPT !.summarizing = <<NoDoc>>]]_vars

C7_Witness ==
  /\ toast = "Summarization Failed"
  /\ pending.summarizing = <<NoDoc>>
  /\ summarizing # NoDoc
  /\ summaryDialogOpen
  /\ summary # <<>>
  /\ Len(messages) = 2
  /\ onSummarizeCalls = 1
  /\ nSums = 2

\* C8: a failed document-list fetch leaves the displayed mapping as it was
\* and queues no update of it, ends the loading state and returns the
\* parent's refresh flag to false.
C8_FailedFetchKeepsDocuments ==
  [][\A i \in DOMAIN fetches :
       (fetches' = RemoveAt(fetches, i) /\ toast' = "Error Loading Documents") =>
         /\ documents' = documents
         /\ pending'.documents = pending.documents
         /\ pending'.docsLoading = <<FALSE>>
         /\ pending'.refreshDocuments = <<FALSE>>]_vars

C8_Witness ==
  /\ toast = "Error Loading Documents"
  /\ Len(documents) > 0
  /\ docsFrom = 1
  /\ fetchSeq = 2
  /\ fetches = <<>>
  /\ docsLoading
  /\ refreshDocuments
  /\ pending.docsLoading = <<FALSE>>
  /\ pending.refreshDocuments = <<FALSE>>

\* C9: when an ask request completes, the conversation it sets is the
\* conversation immediately before, followed by one new assistant message.
C9_AskCompletionKeepsConversation ==
  [][\A i \in DOMAIN asks :
       AskCompleted(i) =>
         /\ Len(pending'.messages) = 1
         /\ Len(pending'.messages[1].items) = Len(messages) + 1
         /\ SubSeq(pending'.messages[1].items, 1, Len(messages)) = messages
         /\ pending'.messages[1].items[Len(messages) + 1].role = "assistant"]_vars

\* C10: the response of an earlier fetch never replaces the displayed
\* response of a fetch issued after it.
C10_NewerResponseIsNotOverwritten ==
  [][docsFrom' >= docsFrom]_vars

\* C11: at most one ask request is in flight, and while one is in flight
\* the chat is loading, so that handleSubmit accepts no further submit.
C11_OneAskInFlight ==
  /\ Len(asks) <= 1
  /\ asks # <<>> => loading
  /\ asks # <<>> => ~SubmitAccepted

\* A submit of "a" on an empty chat that met the waiting effect of a
\* summary: the chat shows the pair, the request is in flight.
C11_Witness ==
  /\ Len(asks) = 1
  /\ loading
  /\ asks[1].updatedMessages = <<[role |-> "user", content |-> <<"a">>]>>
  /\ Len(messages) = 2
  /\ messages[1].content = SummarizePrompt
  /\ messagesRef = 1
  /\ homeMessagesRef = 1
  /\ pending.messages = <<>>
  /\ pending.homeMessages # <<>>

\* C14: an upload request is sent only by a drop that was handed an
\* accepted file, and carries the first of them; a drop that was handed
\* none sends no request and leaves uploading and uploadStatus as they were.
C14_UploadCarriesFirstAcceptedFile ==
  [][/\ Len(uploads') > Len(uploads) =>
          /\ lastDrop' # <<>>
          /\ uploads' = Append(uploads, [file |-> lastDrop'[1]])
     /\ (lastDrop' # lastDrop /\ lastDrop' = <<>>) =>
          UNCHANGED <<uploads, uploading, uploadStatus, pending>>]_vars

C14_Witness ==
  /\ lastDrop = <<"b.pdf">>
  /\ Len(uploads) = 2
  /\ uploads[1].file = "a.pdf"
  /\ uploads[2].file = "b.pdf"
  /\ uploading
  /\ uploadStatus = <<>>

\* C14, the other case: a drop without accepted files after a failed upload.
C14_WitnessNoFile ==
  /\ lastDrop = <<>>
  /\ nDrops = 1
  /\ uploads = <<>>
  /\ Len(uploadStatus) = 1
  /\ ~uploading

\* The summary dialog is on screen: open, and the list rendered with it.
DialogShown == summaryDialogOpen /\ ~docsLoading /\ Len(documents) > 0

\* C12: whenever the summary dialog is shown, the file named in its
\* description is the file of the document whose summary it displays.
C12_DialogNamesSummarizedFile ==
  DialogShown => summary = <<"summary of", currentFile>>

\* C13: while a summarize request for a document is in flight, summarizing
\* is that document's id, so its Summarize button is disabled.
C13_ButtonDisabledWhileInFlight ==
  \A i \in DOMAIN sums : summarizing = sums[i].docId

====
